---- MODULE Spec2Model ----
(***************************************************************************)
(* The CUDA allocator family of onnxruntime/core/providers/cuda/           *)
(* cuda_allocator.cc: CUDAAllocator (raw device memory),                   *)
(* CUDAMemoryPoolAllocator (size-bucketed pool with reserved pointers),    *)
(* CUDAExternalAllocator (caller-supplied hooks) and CUDAPinnedAllocator   *)
(* (pinned host memory).  One allocator instance is modelled; its variant  *)
(* is fixed at construction (kind).  The CUDA runtime is the environment:  *)
(* the active device, the set of addresses it has handed out, and the      *)
(* outcome of each runtime call.                                           *)
(***************************************************************************)
EXTENDS Integers, Sequences, FiniteSets

\* ---------------------------------------------------------------- bounds
\* Addresses the platform can hand out are 1..MaxPtr; 0 is nullptr.
MaxPtr == 2
\* Concurrent callers: a thread starts a Reserve only while fewer than
\* MaxReserves reservations have been recorded.
MaxReserves == 2

nullptr == 0
Ptrs == 1..MaxPtr
PtrsOrNull == 0..MaxPtr
\* Request sizes: zero and two different non-zero sizes (the allocators only
\* test a size against zero and, in the pool, sizes for equality).
Sizes == {0, 1, 2}
\* Device ordinals (the allocators only test the active device against id).
Devices == {0, 1}
Kinds == {"Raw", "Pooled", "External", "Pinned"}
\* Threads calling into one CUDAExternalAllocator at the same time.
Threads == {"t1", "t2"}

VARIABLES
  kind,                \* which allocator class this instance is
  ndebug,              \* TRUE when built with NDEBUG (CheckDevice compiled out)
  id,                  \* Info().id: the device ordinal the allocator is bound to
  empty_cache_,        \* TRUE when the external empty_cache hook was supplied
  current_device,      \* the CUDA runtime's active device (cudaGetDevice)
  live,                \* addresses the platform has handed out and not released
  size_to_alloc_ptrs_, \* pool: size -> sequence of pointers
  alloc_ptr_to_size_,  \* pool: pointer -> size it was allocated with
  reserved_ptrs_,      \* pool: reserved pointers
  reserved_,           \* external allocator: reserved pointers
  destroyed,           \* the pool's destructor has run
  held,                \* caller side: how many times each address is handed out by Alloc and not yet freed
  resHeld,             \* caller side: addresses returned by Reserve and not yet freed
  owed,                \* successful platform allocations minus platform free calls, so far
  dblFree,             \* the platform free was called on an address it had not handed out
  last,                \* the call that ran last: arguments, result, platform calls made
  before,              \* <<the Alloc(size > 0) call>> whose result the last call, or the call
                       \* before the last Alloc of that size, freed; <<>> otherwise
  freed,               \* pool: the handle the last plain Free gave back, after the distinct
                       \* handle of the same size the plain Free just before it gave back (if
                       \* any); the two are kept over an Alloc of that size that follows
  thr,                 \* external allocator, concurrent callers: per thread, where it is in
                       \* its call (pc) and what the call did so far
  tally                \* external allocator, concurrent callers: per address, how often it
                       \* was inserted into reserved_, erased from it, and empty_cache_ called

vars == <<kind, ndebug, id, empty_cache_, current_device, live,
          size_to_alloc_ptrs_, alloc_ptr_to_size_, reserved_ptrs_, reserved_,
          destroyed, held, resHeld, owed, dblFree, last, before, freed, thr, tally>>

config == <<kind, ndebug, id, empty_cache_>>
poolVars == <<size_to_alloc_ptrs_, alloc_ptr_to_size_, reserved_ptrs_>>
extVars == <<thr, tally>>
history == <<last, before, freed>>

\* ----------------------------------------------------- the CUDA runtime
\* Outcome of the runtime calls one allocator call may make.
\*   get_ok:  cudaGetDevice in SetDevice succeeds
\*   set_ok:  cudaSetDevice succeeds
\*   chk_ok:  cudaGetDevice in CheckDevice succeeds
\*   mem_ok:  cudaMalloc / cudaMallocHost / cudaFree / cudaFreeHost succeeds
Env == [get_ok : BOOLEAN, set_ok : BOOLEAN, chk_ok : BOOLEAN, mem_ok : BOOLEAN]
EnvOk == [get_ok |-> TRUE, set_ok |-> TRUE, chk_ok |-> TRUE, mem_ok |-> TRUE]

\* Addresses the platform may return from an allocation.
FreeAddrs == Ptrs \ live

\* The platform can only succeed when it has an address left.
CanAlloc == FreeAddrs # {}

\* No platform free was called on any pointer.
NoFrees == [p \in PtrsOrNull |-> 0]

\* The record of one call: its arguments (op, size, p), its result (ret, or
\* threw when it ended in an exception), the platform calls it made (mallocs:
\* allocate calls; frees: free calls per pointer; set_calls: cudaSetDevice
\* calls; empty_caches: empty_cache hook calls; fence: the key CreateFence
\* looked the data transfer up with), and what it found (pooled:
\* length of the size bucket; was_reserved; dev_before and dev_after: the
\* active device when it started and ended; env: the outcome of the runtime
\* calls).
NoCall == [op |-> "none", size |-> 0, p |-> nullptr, ret |-> nullptr,
           threw |-> FALSE, mallocs |-> 0, frees |-> NoFrees, set_calls |-> 0,
           empty_caches |-> 0, pooled |-> 0, was_reserved |-> FALSE,
           dev_before |-> 0, dev_after |-> 0, env |-> EnvOk, fence |-> <<>>]

Call(op, size, p, env) == [NoCall EXCEPT !.op = op, !.size = size, !.p = p,
                                         !.dev_before = current_device,
                                         !.dev_after = current_device, !.env = env]

\* Caller-side bookkeeping.
HandOut(p) == IF p = nullptr THEN held ELSE [held EXCEPT ![p] = @ + 1]
GiveBack(p) == IF p = nullptr THEN held ELSE [held EXCEPT ![p] = @ - 1]
Holding == {p \in Ptrs : held[p] > 0}

\* cudaFree(p) / cudaFreeHost(p) / free hook, seen from the platform: a
\* successful free releases the address; a failed one leaves it allocated.
LiveAfterFree(p, ok) == IF ok THEN live \ {p} ELSE live
IsDoubleFree(p) == p # nullptr /\ p \notin live
OneFree(p) == [NoFrees EXCEPT ![p] = 1]

\* A thread that is in no call and has made none; a call is recorded by its
\* op, its argument or result p, the free_ hook calls it made (frees), whether
\* it looked p up in reserved_ (looked) and found it (found), the empty_cache_
\* calls it made (empties), and whether it ended in an exception (threw; dup
\* when it was the duplicate-reservation ORT_ENFORCE).
IdleThread == [pc |-> "idle", op |-> "none", p |-> nullptr, frees |-> 0, looked |-> FALSE,
               found |-> FALSE, empties |-> 0, threw |-> FALSE, dup |-> FALSE]

NoTally == [ins |-> [p \in Ptrs |-> 0], rem |-> [p \in Ptrs |-> 0], emp |-> [p \in PtrsOrNull |-> 0]]

Init ==
  /\ kind \in Kinds
  \* CheckDevice is only called by CUDAAllocator, the hooks only by CUDAExternalAllocator
  /\ ndebug \in (IF kind = "Raw" THEN BOOLEAN ELSE {TRUE})
  /\ id \in Devices
  /\ empty_cache_ \in (IF kind = "External" THEN BOOLEAN ELSE {FALSE})
  \* the CUDA runtime starts with device 0 active
  /\ current_device = 0
  /\ live = {}
  /\ size_to_alloc_ptrs_ = [s \in Sizes |-> <<>>]
  /\ alloc_ptr_to_size_ = [p \in {} |-> 0]
  /\ reserved_ptrs_ = {}
  /\ reserved_ = {}
  /\ destroyed = FALSE
  /\ held = [p \in Ptrs |-> 0]
  /\ resHeld = {}
  /\ owed = 0
  /\ dblFree = FALSE
  /\ last = NoCall
  /\ before = <<>>
  /\ freed = <<>>
  /\ thr = [t \in Threads |-> IdleThread]
  /\ tally = NoTally

\* What an earlier Alloc is remembered by.
Brief(c) == [size |-> c.size, ret |-> c.ret, mallocs |-> c.mallocs, pooled |-> c.pooled]

\* `before` once call c has run after `last`.
Remember(c) ==
  IF c.op = "Free" /\ last.op = "Alloc" /\ last.size > 0 /\ ~last.threw /\ c.p = last.ret
    THEN <<Brief(last)>>
  ELSE IF c.op = "Alloc" /\ last.op = "Free" /\ Len(before) = 1 /\ before[1].size = c.size
    THEN before
  ELSE <<>>

\* `freed` once call c has run after `last`.
Freed(c) ==
  LET size_of(p) == IF p \in DOMAIN alloc_ptr_to_size_ THEN alloc_ptr_to_size_[p] ELSE 0
  IN IF kind = "Pooled" /\ c.op = "Free" /\ c.p # nullptr /\ ~c.was_reserved
       THEN IF /\ last.op = "Free" /\ Len(freed) > 0
               /\ freed[Len(freed)] # c.p
               /\ size_of(freed[Len(freed)]) = size_of(c.p)
              THEN <<freed[Len(freed)], c.p>>
              ELSE <<c.p>>
     ELSE IF c.op = "Alloc" /\ last.op = "Free" /\ Len(freed) = 2 /\ size_of(freed[2]) = c.size
       THEN freed
     ELSE <<>>

\* Finish a call: record it.
Done(c) == /\ last' = c
           /\ before' = Remember(c)
           /\ freed' = Freed(c)

\* ------------------------------------------- CUDAMemoryPoolAllocator
\* std::map::insert: an existing key keeps its value.
MapInsert(m, k, v) ==
  IF k \in DOMAIN m THEN m
  ELSE [x \in DOMAIN m \cup {k} |-> IF x = k THEN v ELSE m[x]]

\* std::map::operator[]: a missing key reads as the default value 0.
MapAt(m, k) == IF k \in DOMAIN m THEN m[k] ELSE 0

\* The runtime outcomes a pool call can meet: the pool only calls cudaMalloc
\* and cudaFree, and ignores the status of both.
PoolEnv == {e \in Env : e.get_ok /\ e.set_ok /\ e.chk_ok}

\* An Alloc whose bucket lookup never finds an entry.
PoolHit_Never(size) == FALSE

\* Alloc: the bucket has an entry (iter->second.size() > 0).
PoolHit(size) == Len(size_to_alloc_ptrs_[size]) > 0

\* An Alloc that takes the oldest entry of the bucket.
PoolBack_Front(bucket) == bucket[1]

\* Alloc: p = iter->second.back().
PoolBack(bucket) == bucket[Len(bucket)]

\* Alloc: iter->second.pop_back().
PoolPopBack(bucket) == SubSeq(bucket, 1, Len(bucket) - 1)

\* Alloc, after cudaMalloc: the bucket of `size` once p is recorded.
PoolBucketAfterMalloc(bucket, p) == Append(bucket, p)

\* Free: the bucket once p is given back.
PoolBucketAfterFree(bucket, p) == Append(bucket, p)

\* A Free that takes every pointer for a reserved one.
PoolIsReserved_Always(p) == TRUE

\* Free: is_reserved.
PoolIsReserved(p) == p \in reserved_ptrs_

\* cudaMalloc((void**)&p, size) with p initialised to nullptr: a fresh address,
\* or p left nullptr when the call fails.
CudaMallocResults(env) == IF env.mem_ok THEN FreeAddrs ELSE {nullptr}

\* The platform's books after cudaMalloc returned p.
LiveAfterMalloc(p) == live \cup (Ptrs \cap {p})
OwedAfterMalloc(p) == IF p = nullptr THEN owed ELSE owed + 1

PoolAlloc ==
  /\ kind = "Pooled" /\ ~destroyed
  /\ \E size \in Sizes :
       LET bucket == size_to_alloc_ptrs_[size]
           c == [Call("Alloc", size, nullptr, EnvOk) EXCEPT !.pooled = Len(bucket)]
       IN IF size = 0 THEN
            /\ Done([c EXCEPT !.ret = nullptr])
            /\ UNCHANGED <<config, extVars, current_device, live, poolVars, reserved_,
                           destroyed, held, resHeld, owed, dblFree>>
          ELSE IF PoolHit(size) THEN
            /\ size_to_alloc_ptrs_' = [size_to_alloc_ptrs_ EXCEPT ![size] = PoolPopBack(bucket)]
            /\ held' = HandOut(PoolBack(bucket))
            /\ Done([c EXCEPT !.ret = PoolBack(bucket)])
            /\ UNCHANGED <<config, extVars, current_device, live, alloc_ptr_to_size_,
                           reserved_ptrs_, reserved_, destroyed, resHeld, owed, dblFree>>
          ELSE
            \E env \in PoolEnv :
              /\ env.mem_ok => CanAlloc
              /\ \E p \in CudaMallocResults(env) :
                   /\ live' = LiveAfterMalloc(p)
                   /\ owed' = OwedAfterMalloc(p)
                   /\ alloc_ptr_to_size_' = MapInsert(alloc_ptr_to_size_, p, size)
                   /\ size_to_alloc_ptrs_' =
                        [size_to_alloc_ptrs_ EXCEPT ![size] = PoolBucketAfterMalloc(bucket, p)]
                   /\ held' = HandOut(p)
                   /\ Done([c EXCEPT !.ret = p, !.mallocs = 1, !.env = env])
              /\ UNCHANGED <<config, extVars, current_device, reserved_ptrs_, reserved_,
                             destroyed, resHeld, dblFree>>

PoolReserve ==
  /\ kind = "Pooled" /\ ~destroyed
  /\ \E size \in Sizes :
       LET c == Call("Reserve", size, nullptr, EnvOk)
       IN IF size > 0 THEN
            \E env \in PoolEnv :
              /\ env.mem_ok => CanAlloc
              /\ \E p \in CudaMallocResults(env) :
                   /\ live' = LiveAfterMalloc(p)
                   /\ owed' = OwedAfterMalloc(p)
                   /\ reserved_ptrs_' = reserved_ptrs_ \cup {p}
                   /\ resHeld' = resHeld \cup (Ptrs \cap {p})
                   /\ Done([c EXCEPT !.ret = p, !.mallocs = 1, !.env = env])
              /\ UNCHANGED <<config, extVars, current_device, size_to_alloc_ptrs_,
                             alloc_ptr_to_size_, reserved_, destroyed, held, dblFree>>
          ELSE
            /\ Done([c EXCEPT !.ret = nullptr])
            /\ UNCHANGED <<config, extVars, current_device, live, poolVars, reserved_,
                           destroyed, held, resHeld, owed, dblFree>>

\* The pointers a caller may pass to Free: nullptr, or one it was handed by
\* Alloc or Reserve and has not freed since.
Freeable == {nullptr} \cup Holding \cup resHeld

\* The caller no longer holds p.
ReleaseHeld(p) == IF p \in resHeld THEN held ELSE GiveBack(p)
ReleaseReserved(p) == resHeld \ {p}

PoolFree ==
  /\ kind = "Pooled" /\ ~destroyed
  /\ \E p \in Freeable :
       LET c == [Call("Free", 0, p, EnvOk) EXCEPT !.was_reserved = (p \in resHeld)]
           size == MapAt(alloc_ptr_to_size_, p)
       IN IF p = nullptr THEN
            /\ Done(c)
            /\ UNCHANGED <<config, extVars, current_device, live, poolVars, reserved_,
                           destroyed, held, resHeld, owed, dblFree>>
          ELSE IF PoolIsReserved(p) THEN
            /\ live' = LiveAfterFree(p, TRUE)
            /\ Done([c EXCEPT !.frees = OneFree(p)])
            /\ dblFree' = (dblFree \/ IsDoubleFree(p))
            /\ owed' = owed - 1
            /\ reserved_ptrs_' = reserved_ptrs_ \ {p}
            /\ held' = ReleaseHeld(p)
            /\ resHeld' = ReleaseReserved(p)
            /\ UNCHANGED <<config, extVars, current_device, size_to_alloc_ptrs_, alloc_ptr_to_size_,
                           reserved_, destroyed>>
          ELSE
            /\ alloc_ptr_to_size_' = MapInsert(alloc_ptr_to_size_, p, 0)
            /\ size_to_alloc_ptrs_' =
                 [size_to_alloc_ptrs_ EXCEPT ![size] = PoolBucketAfterFree(@, p)]
            /\ held' = ReleaseHeld(p)
            /\ resHeld' = ReleaseReserved(p)
            /\ Done(c)
            /\ UNCHANGED <<config, extVars, current_device, live, reserved_ptrs_, reserved_,
                           destroyed, owed, dblFree>>

\* ~CUDAMemoryPoolAllocator: the cudaFree calls made on each pointer.
DestructorFrees ==
  [p \in PtrsOrNull |-> (IF p \in reserved_ptrs_ THEN 1 ELSE 0)
                        + (IF p \in DOMAIN alloc_ptr_to_size_ THEN 1 ELSE 0)]

RECURSIVE SumOver(_, _)
SumOver(f, S) == IF S = {} THEN 0
                 ELSE LET x == CHOOSE y \in S : TRUE IN f[x] + SumOver(f, S \ {x})

PoolDestroy ==
  /\ kind = "Pooled" /\ ~destroyed
  /\ LET f == DestructorFrees
           released == {p \in Ptrs : f[p] > 0}
       IN /\ destroyed' = TRUE
          /\ live' = live \ released
          /\ dblFree' = (dblFree \/ \E p \in Ptrs : f[p] > 1 \/ (f[p] = 1 /\ p \notin live))
          /\ owed' = owed - SumOver(f, PtrsOrNull)
          /\ Done([Call("Destroy", 0, nullptr, EnvOk) EXCEPT !.frees = f])
          /\ UNCHANGED <<config, extVars, current_device, poolVars, reserved_, held, resHeld>>

\* ------------------------------------------------------- CUDAAllocator
\* SetDevice(throw_when_fail) with the active device cur: the active device
\* afterwards, whether it threw, and the cudaSetDevice calls made.
SetDevice(throw_when_fail, cur, env) ==
  LET switch == env.get_ok /\ cur # id
      failed == ~env.get_ok \/ (switch /\ ~env.set_ok)
  IN [dev |-> IF switch /\ env.set_ok THEN id ELSE cur,
      threw |-> failed /\ throw_when_fail,
      set_calls |-> IF switch THEN 1 ELSE 0]

\* CheckDevice(throw_when_fail) with the active device cur: TRUE when it throws.
CheckDevice(throw_when_fail, cur, env) ==
  IF ndebug THEN FALSE
  ELSE IF env.chk_ok THEN cur # id
  ELSE throw_when_fail

\* An outcome is only drawn for the runtime calls a call makes.
OnlyCalled(env, set_called, chk_called, mem_called) ==
  /\ ~set_called => env.set_ok
  /\ ~chk_called => env.chk_ok
  /\ ~mem_called => env.mem_ok

\* Alloc: the size test guarding cudaMalloc.
RawCallsMalloc(size) == size > 0

RawAlloc ==
  /\ kind = "Raw"
  /\ \E size \in Sizes, env \in Env :
       LET sd == SetDevice(TRUE, current_device, env)
           fails == sd.threw \/ CheckDevice(TRUE, sd.dev, env)
           c == [Call("Alloc", size, nullptr, env) EXCEPT !.set_calls = sd.set_calls,
                                                         !.dev_after = sd.dev]
       IN /\ OnlyCalled(env, sd.set_calls = 1, ~sd.threw /\ ~ndebug,
                        ~fails /\ RawCallsMalloc(size))
          /\ current_device' = sd.dev
          /\ IF fails THEN
               /\ Done([c EXCEPT !.threw = TRUE])
               /\ UNCHANGED <<live, held>>
             ELSE IF RawCallsMalloc(size) THEN
               /\ env.mem_ok => CanAlloc
               /\ IF env.mem_ok THEN
                    \E p \in FreeAddrs :
                      /\ live' = LiveAfterMalloc(p)
                      /\ held' = HandOut(p)
                      /\ Done([c EXCEPT !.ret = p, !.mallocs = 1])
                  ELSE
                    /\ Done([c EXCEPT !.threw = TRUE, !.mallocs = 1])
                    /\ UNCHANGED <<live, held>>
             ELSE
               /\ Done([c EXCEPT !.ret = nullptr])
               /\ UNCHANGED <<live, held>>
          /\ UNCHANGED <<config, extVars, poolVars, reserved_, destroyed, resHeld, owed, dblFree>>

RawFree ==
  /\ kind = "Raw"
  /\ \E p \in Freeable, env \in Env :
       LET sd == SetDevice(FALSE, current_device, env)
           fails == sd.threw \/ CheckDevice(FALSE, sd.dev, env)
           c == [Call("Free", 0, p, env) EXCEPT !.set_calls = sd.set_calls,
                                                !.dev_after = sd.dev]
       IN /\ OnlyCalled(env, sd.set_calls = 1, ~sd.threw /\ ~ndebug, ~fails)
          /\ current_device' = sd.dev
          /\ IF fails THEN
               /\ Done([c EXCEPT !.threw = TRUE])
               /\ UNCHANGED <<live, held>>
             ELSE
               /\ live' = LiveAfterFree(p, env.mem_ok)
               /\ held' = GiveBack(p)
               /\ Done([c EXCEPT !.frees = OneFree(p)])
          /\ UNCHANGED <<config, extVars, poolVars, reserved_, destroyed, resHeld, owed, dblFree>>

\* ------------------------------------------------- CUDAPinnedAllocator
\* The runtime outcomes a pinned or external call can meet: only the memory
\* call (cudaMallocHost, cudaFreeHost, the alloc hook) has one.
MemEnv == {e \in Env : e.get_ok /\ e.set_ok /\ e.chk_ok}

PinnedAlloc ==
  /\ kind = "Pinned"
  /\ \E size \in Sizes :
       LET c == Call("Alloc", size, nullptr, EnvOk)
       IN IF size > 0 THEN
            \E env \in MemEnv :
              /\ env.mem_ok => CanAlloc
              /\ IF env.mem_ok THEN
                   \E p \in FreeAddrs :
                     /\ live' = LiveAfterMalloc(p)
                     /\ held' = HandOut(p)
                     /\ Done([c EXCEPT !.ret = p, !.mallocs = 1, !.env = env])
                 ELSE
                   /\ Done([c EXCEPT !.threw = TRUE, !.mallocs = 1, !.env = env])
                   /\ UNCHANGED <<live, held>>
          ELSE
            /\ Done([c EXCEPT !.ret = nullptr])
            /\ UNCHANGED <<live, held>>
  /\ UNCHANGED <<config, extVars, current_device, poolVars, reserved_, destroyed, resHeld, owed,
                 dblFree>>

PinnedFree ==
  /\ kind = "Pinned"
  /\ \E p \in Freeable, env \in MemEnv :
       /\ live' = LiveAfterFree(p, env.mem_ok)
       /\ held' = GiveBack(p)
       /\ Done([Call("Free", 0, p, env) EXCEPT !.frees = OneFree(p), !.threw = ~env.mem_ok])
  /\ UNCHANGED <<config, extVars, current_device, poolVars, reserved_, destroyed, resHeld, owed,
                 dblFree>>

\* ----------------------------------------------- CUDAExternalAllocator
\* alloc_(size): the hook returns an address it has not handed out, or nullptr.
HookAllocResults(env) == IF env.mem_ok THEN FreeAddrs ELSE {nullptr}

\* A Free that finds p but does not erase it.
ExtReservedAfterFree_Kept(p) == reserved_

\* Free, under the lock: reserved_ once p is looked up and erased.
ExtReservedAfterFree(p) == reserved_ \ {p}

\* A Free that calls empty_cache_ whether or not it found p.
ExtEmptyCacheCalls_NotFound(p) == IF empty_cache_ THEN 1 ELSE 0

\* Free, under the lock: the empty_cache_ calls made.
ExtEmptyCacheCalls(p) == IF p \in reserved_ /\ empty_cache_ THEN 1 ELSE 0

\* Reserve: ORT_ENFORCE(reserved_.find(p) == reserved_.end()) fails.
ExtReserveEnforceFails(p) == p \in reserved_

ExtAlloc ==
  /\ kind = "External"
  /\ \E size \in Sizes :
       LET c == Call("Alloc", size, nullptr, EnvOk)
       IN IF size > 0 THEN
            \E env \in MemEnv :
              /\ env.mem_ok => CanAlloc
              /\ \E p \in HookAllocResults(env) :
                   /\ live' = LiveAfterMalloc(p)
                   /\ held' = HandOut(p)
                   /\ Done([c EXCEPT !.ret = p, !.mallocs = 1, !.env = env,
                                     !.threw = (p = nullptr)])
          ELSE
            /\ Done([c EXCEPT !.ret = nullptr])
            /\ UNCHANGED <<live, held>>
  /\ UNCHANGED <<config, extVars, current_device, poolVars, reserved_, destroyed, resHeld, owed,
                 dblFree>>

ExtFree ==
  /\ kind = "External"
  /\ \E p \in Freeable :
       /\ live' = LiveAfterFree(p, TRUE)
       /\ reserved_' = ExtReservedAfterFree(p)
       /\ held' = ReleaseHeld(p)
       /\ resHeld' = ReleaseReserved(p)
       /\ Done([Call("Free", 0, p, EnvOk) EXCEPT !.frees = OneFree(p),
                                                 !.was_reserved = (p \in resHeld),
                                                 !.empty_caches = ExtEmptyCacheCalls(p)])
  /\ UNCHANGED <<config, extVars, current_device, poolVars, destroyed, owed, dblFree>>

ExtReserve ==
  /\ kind = "External"
  /\ \E size \in Sizes :
       LET c == Call("Reserve", size, nullptr, EnvOk)
       IN IF size > 0 THEN
            \E env \in MemEnv :
              /\ env.mem_ok => CanAlloc
              /\ \E p \in HookAllocResults(env) :
                   LET d == [c EXCEPT !.mallocs = 1, !.env = env]
                   IN /\ live' = LiveAfterMalloc(p)
                      /\ IF p = nullptr \/ ExtReserveEnforceFails(p) THEN
                           /\ Done([d EXCEPT !.threw = TRUE])
                           /\ UNCHANGED <<reserved_, resHeld>>
                         ELSE
                           /\ reserved_' = reserved_ \cup {p}
                           /\ resHeld' = resHeld \cup {p}
                           /\ Done([d EXCEPT !.ret = p])
          ELSE
            /\ Done([c EXCEPT !.ret = nullptr])
            /\ UNCHANGED <<live, reserved_, resHeld>>
  /\ UNCHANGED <<config, extVars, current_device, poolVars, destroyed, held, owed, dblFree>>

\* Another component of the process switches the active device.
AmbientSetDevice ==
  /\ kind = "Raw"
  /\ \E d \in Devices : d # current_device /\ current_device' = d
  /\ UNCHANGED <<config, extVars, live, poolVars, reserved_, destroyed, held, resHeld,
                 owed, dblFree, last, before, freed>>

\* ------------------------------------------------------------ CreateFence
\* GetGPUDataTransfer: the (source device, destination device) key handed to
\* GetDataTransferMgr().GetDataTransfer: OrtDevice(GPU, DEFAULT, 0) and a
\* default-constructed OrtDevice (the host).
GetGPUDataTransfer ==
  [gpu_device |-> [type |-> "GPU", mem_type |-> "DEFAULT", device_id |-> 0],
   cpu_device |-> [type |-> "CPU", mem_type |-> "DEFAULT", device_id |-> 0]]

\* CUDAAllocator::CreateFence, CUDAMemoryPoolAllocator::CreateFence and
\* CUDAPinnedAllocator::CreateFence.
CreateFence ==
  /\ kind \in {"Raw", "Pooled", "Pinned"}
  /\ ~destroyed
  /\ Done([Call("CreateFence", 0, nullptr, EnvOk) EXCEPT !.fence = GetGPUDataTransfer])
  /\ UNCHANGED <<config, extVars, current_device, live, poolVars, reserved_, destroyed, held,
                 resHeld, owed, dblFree>>

Next ==
  \/ PoolAlloc
  \/ PoolReserve
  \/ PoolFree
  \/ PoolDestroy
  \/ RawAlloc
  \/ RawFree
  \/ PinnedAlloc
  \/ PinnedFree
  \/ ExtAlloc
  \/ ExtFree
  \/ ExtReserve
  \/ AmbientSetDevice
  \/ CreateFence

Spec == Init /\ [][Next]_vars

\* --------------------------- CUDAExternalAllocator, concurrent callers
\* Each call is split where another thread can run in between: Free into the
\* free_ hook call and the block under lock_; Reserve into Alloc and the block
\* under lock_.  A block under lock_ is one step: lock_ keeps every other
\* thread out of the blocks, and what runs outside them (the hooks) does not
\* touch reserved_.

\* A Free that only calls the hook for a reserved pointer.
ExtFreeHookCalls_IfReserved(p) == IF p \in reserved_ THEN 1 ELSE 0

\* Free: the free_ calls made on p.
ExtFreeHookCalls(p) == 1

Bump(f, p, n) == [f EXCEPT ![p] = @ + n]

\* Alloc, in one step of thread t.
ExtAllocBy(t) ==
  /\ thr[t].pc = "idle"
  /\ \E size \in Sizes :
       LET c == [IdleThread EXCEPT !.op = "Alloc"]
       IN IF size > 0 THEN
            \E env \in MemEnv :
              /\ env.mem_ok => CanAlloc
              /\ \E p \in HookAllocResults(env) :
                   /\ live' = LiveAfterMalloc(p)
                   /\ held' = HandOut(p)
                   /\ thr' = [thr EXCEPT ![t] = [c EXCEPT !.p = p, !.threw = (p = nullptr)]]
          ELSE
            /\ thr' = [thr EXCEPT ![t] = c]
            /\ UNCHANGED <<live, held>>
  /\ UNCHANGED <<config, current_device, poolVars, reserved_, destroyed, resHeld, owed,
                 dblFree, history, tally>>

\* Another thread is in a Free of the handle p.
BeingFreed(p) == p # nullptr /\ \E u \in Threads : thr[u].pc = "Free_lock" /\ thr[u].p = p

\* Free, first step of thread t: free_(p).  The caller passes nullptr, a handle
\* it holds, or (once) the handle another thread is freeing.
ExtFreeHook(t) ==
  /\ thr[t].pc = "idle"
  /\ \E p \in PtrsOrNull :
       /\ p \notin Freeable => (~dblFree /\ BeingFreed(p))
       /\ live' = LiveAfterFree(p, TRUE)
       /\ dblFree' = (dblFree \/ p \notin Freeable)
       /\ held' = IF p \in Freeable THEN ReleaseHeld(p) ELSE held
       /\ resHeld' = ReleaseReserved(p)
       /\ thr' = [thr EXCEPT ![t] = [IdleThread EXCEPT !.pc = "Free_lock", !.op = "Free",
                                                     !.p = p,
                                                     !.frees = ExtFreeHookCalls(p)]]
  /\ UNCHANGED <<config, current_device, poolVars, reserved_, destroyed, owed, history,
                 tally>>

\* Free, second step of thread t: the block under lock_.
ExtFreeLocked(t) ==
  /\ thr[t].pc = "Free_lock"
  /\ LET p == thr[t].p
         found == p \in reserved_
         n == ExtEmptyCacheCalls(p)
     IN /\ reserved_' = ExtReservedAfterFree(p)
        /\ tally' = [tally EXCEPT !.rem = IF found THEN Bump(@, p, 1) ELSE @,
                                  !.emp = Bump(@, p, n)]
        /\ thr' = [thr EXCEPT ![t] = [@ EXCEPT !.pc = "idle", !.looked = TRUE,
                                               !.found = found, !.empties = n]]
  /\ UNCHANGED <<config, current_device, live, poolVars, destroyed, held, resHeld, owed,
                 dblFree, history>>

\* Reserve, first step of thread t: Alloc(size) and the test of its result.
ExtReserveAlloc(t) ==
  /\ thr[t].pc = "idle"
  /\ SumOver(tally.ins, Ptrs) < MaxReserves
  /\ \E size \in Sizes :
       LET c == [IdleThread EXCEPT !.op = "Reserve"]
       IN IF size > 0 THEN
            \E env \in MemEnv :
              /\ env.mem_ok => CanAlloc
              /\ \E p \in HookAllocResults(env) :
                   /\ live' = LiveAfterMalloc(p)
                   /\ thr' = [thr EXCEPT ![t] =
                                [c EXCEPT !.p = p, !.threw = (p = nullptr),
                                          !.pc = IF p = nullptr THEN "idle" ELSE "Reserve_lock"]]
          ELSE
            /\ thr' = [thr EXCEPT ![t] = c]
            /\ UNCHANGED live
  /\ UNCHANGED <<config, current_device, poolVars, reserved_, destroyed, held, resHeld,
                 owed, dblFree, history, tally>>

\* Reserve, second step of thread t: the block under lock_.
ExtReserveLocked(t) ==
  /\ thr[t].pc = "Reserve_lock"
  /\ LET p == thr[t].p
     IN IF ExtReserveEnforceFails(p) THEN
          /\ thr' = [thr EXCEPT ![t] = [@ EXCEPT !.pc = "idle", !.looked = TRUE,
                                                 !.found = TRUE, !.threw = TRUE, !.dup = TRUE]]
          /\ UNCHANGED <<reserved_, resHeld, tally>>
        ELSE
          /\ reserved_' = reserved_ \cup {p}
          /\ resHeld' = resHeld \cup {p}
          /\ tally' = [tally EXCEPT !.ins = Bump(@, p, 1)]
          /\ thr' = [thr EXCEPT ![t] = [@ EXCEPT !.pc = "idle", !.looked = TRUE]]
  /\ UNCHANGED <<config, current_device, live, poolVars, destroyed, held, owed, dblFree,
                 history>>

\* One CUDAExternalAllocator (the device is not used by it) called by Threads.
InitExt == Init /\ kind = "External" /\ id = current_device

NextExt ==
  \E t \in Threads :
    \/ ExtAllocBy(t)
    \/ ExtFreeHook(t)
    \/ ExtFreeLocked(t)
    \/ ExtReserveAlloc(t)
    \/ ExtReserveLocked(t)

SpecExt == InitExt /\ [][NextExt]_vars

\* ===================================================================
\* Properties
\* ===================================================================
Total(f) == SumOver(f, PtrsOrNull)

\* The last three calls on the pool were Alloc(S), Free of its result, Alloc(S),
\* with S > 0.
AllocFreeAlloc == kind = "Pooled" /\ last.op = "Alloc" /\ Len(before) = 1

\* C1 (as stated, for a first Alloc that returned memory no other caller
\* holds): on the pool, Alloc(S), Free of the returned handle, Alloc(S) with
\* S > 0 returns the same handle again, and cudaMalloc is called exactly once
\* across the two Alloc calls.
C1_ExactlyOneMalloc ==
  (AllocFreeAlloc /\ before[1].ret # nullptr /\ held[before[1].ret] = 1)
    => /\ last.ret = before[1].ret
       /\ before[1].mallocs + last.mallocs = 1

\* C1 (amended): on a pool whose bucket of S holds no pointer, Alloc(S), Free
\* of the returned handle, Alloc(S) with S > 0 returns the same handle again,
\* and cudaMalloc is called exactly once across the two Alloc calls.
C1_SameHandleOneMalloc ==
  (AllocFreeAlloc /\ before[1].pooled = 0)
    => /\ last.ret = before[1].ret
       /\ before[1].mallocs + last.mallocs = 1

\* C1 witness: the three calls ran on an empty bucket, got a real handle from
\* cudaMalloc and got it again.
C1_Witness ==
  /\ AllocFreeAlloc
  /\ before[1].pooled = 0 /\ before[1].mallocs = 1
  /\ last.ret # nullptr /\ last.ret = before[1].ret

\* C2: on the pool, Alloc never returns a handle a caller currently holds: no
\* address is held by two callers at once (handed out twice by Alloc, or by
\* Alloc and by Reserve, with no Free in between).
C2_AllocNeverReturnsHeldHandle ==
  kind = "Pooled" =>
    \A p \in Ptrs : held[p] + (IF p \in resHeld THEN 1 ELSE 0) <= 1

\* C3: on every allocator variant, Alloc(0) returns nullptr (it does not throw)
\* and makes no platform or hook allocate call.
C3_AllocZeroReturnsNull ==
  (last.op = "Alloc" /\ last.size = 0) =>
    (~last.threw /\ last.ret = nullptr /\ last.mallocs = 0)

\* C4: on the pool, what Alloc returns is not in the reserved set: a handle
\* obtained via Reserve is not returned by Alloc while its reservation lasts.
C4_AllocNeverReturnsReserved ==
  (kind = "Pooled" /\ last.op = "Alloc") => last.ret \notin reserved_ptrs_

\* C5: on the external allocator, a Free of a handle the caller had reserved
\* calls empty_cache exactly once (when the hook was supplied) and leaves the
\* handle out of the reserved set; a Free of any handle the caller does not
\* hold reserved (freed before, or obtained by Alloc) never calls empty_cache.
C5_EmptyCacheOncePerReservation ==
  (kind = "External" /\ last.op = "Free") =>
    /\ last.p \notin reserved_
    /\ last.empty_caches = (IF last.was_reserved /\ empty_cache_ THEN 1 ELSE 0)

\* C5 witness: a reserved handle was freed and empty_cache was called once.
C5_Witness ==
  /\ kind = "External" /\ last.op = "Free"
  /\ last.was_reserved /\ last.p # nullptr /\ last.empty_caches = 1

\* C6: once the pool is destroyed, every pointer of a bucket or of the reserved
\* set was passed to cudaFree exactly once by the destructor, no address was
\* freed twice or leaked over the lifetime, and there were as many cudaFree
\* calls as handles obtained from cudaMalloc.
C6_DestructionFreesEachOnce ==
  destroyed =>
    /\ \A p \in PtrsOrNull :
         (p \in reserved_ptrs_ \/ \E s \in Sizes : \E i \in 1..Len(size_to_alloc_ptrs_[s]) :
                                     size_to_alloc_ptrs_[s][i] = p)
           => last.frees[p] = 1
    /\ ~dblFree
    /\ live = {}
    /\ owed = 0

\* C7: on the pool, Free of a non-null handle obtained by Alloc calls no
\* cudaFree and pushes the handle on the bucket of its recorded size; the
\* memory stays allocated until the destructor, which frees it exactly once.
C7_PlainFreeDefersDeviceFree ==
  kind = "Pooled" =>
    /\ (last.op = "Free" /\ last.p # nullptr /\ ~last.was_reserved) =>
         /\ Total(last.frees) = 0
         /\ last.p \in DOMAIN alloc_ptr_to_size_
         /\ alloc_ptr_to_size_[last.p] > 0
         /\ PoolHit(alloc_ptr_to_size_[last.p])
         /\ PoolBack(size_to_alloc_ptrs_[alloc_ptr_to_size_[last.p]]) = last.p
    /\ ~destroyed => (Ptrs \cap DOMAIN alloc_ptr_to_size_) \subseteq live
    /\ destroyed => \A p \in Ptrs \cap DOMAIN alloc_ptr_to_size_ : last.frees[p] = 1

\* C7 witness: two handles of different sizes were allocated and freed, and
\* the destructor freed both.
C7_Witness ==
  /\ kind = "Pooled" /\ destroyed
  /\ \E a, b \in Ptrs :
       /\ a # b
       /\ {a, b} \subseteq DOMAIN alloc_ptr_to_size_
       /\ alloc_ptr_to_size_[a] # alloc_ptr_to_size_[b]
       /\ held[a] = 0 /\ held[b] = 0
       /\ last.frees[a] = 1 /\ last.frees[b] = 1
  /\ Total(last.frees) = 2

\* C8: on the raw and the pooled allocator, whenever Alloc(S > 0) returns
\* memory, the active device is the bound ordinal.
C8_AllocLeavesBoundDeviceActive ==
  (/\ kind \in {"Raw", "Pooled"}
   /\ last.op = "Alloc" /\ last.size > 0
   /\ ~last.threw /\ last.ret # nullptr)
    => last.dev_after = id

\* C9: on the raw and the pooled allocator, an Alloc(S > 0) that starts on
\* another device and does not get the bound device activated fails, and does
\* not call cudaMalloc (also when cudaMalloc would have succeeded).
C9_FailedSwitchIsFatal ==
  (/\ kind \in {"Raw", "Pooled"}
   /\ last.op = "Alloc" /\ last.size > 0
   /\ last.dev_before # id /\ last.dev_after # id
   /\ last.env.mem_ok)
    => (last.threw /\ last.mallocs = 0)

\* C10: on the raw allocator, Free of a non-null handle calls cudaFree on it
\* exactly once and does not throw, whatever the outcome of the device switch
\* and of cudaFree (the active device being readable).
C10_RawFreeAlwaysFrees ==
  (kind = "Raw" /\ last.op = "Free" /\ last.p # nullptr /\ last.env.get_ok)
    => (~last.threw /\ last.frees[last.p] = 1 /\ Total(last.frees) = 1)

\* p is stored in some size bucket.
InSomeBucket(p) ==
  \E s \in Sizes : \E i \in 1..Len(size_to_alloc_ptrs_[s]) : size_to_alloc_ptrs_[s][i] = p

\* C11: on the raw and the pooled allocator, an Alloc or Reserve whose
\* cudaMalloc call fails ends in an exception: it returns no handle, and the
\* null pointer is recorded in no bucket, not in the allocation-size index and
\* not in the reserved set.
C11_FailedAllocIsFatal ==
  (/\ kind \in {"Raw", "Pooled"}
   /\ last.op \in {"Alloc", "Reserve"}
   /\ last.mallocs = 1 /\ ~last.env.mem_ok)
    => /\ last.threw
       /\ nullptr \notin reserved_ptrs_
       /\ nullptr \notin DOMAIN alloc_ptr_to_size_
       /\ ~InSomeBucket(nullptr)

\* C12: CreateFence on a raw or pooled allocator bound to device ordinal d
\* looks the data transfer up with the key (GPU device with ordinal d, host
\* device), for every d.
C12_FenceKeyIsBoundDevice ==
  (kind \in {"Raw", "Pooled"} /\ last.op = "CreateFence") =>
    /\ last.fence.gpu_device.type = "GPU"
    /\ last.fence.gpu_device.device_id = id
    /\ last.fence.cpu_device.type = "CPU"

\* C13: on the pool, no handle is in the reserved set and in a size bucket at
\* the same time.
C13_ReservedAndBucketsDisjoint ==
  kind = "Pooled" => \A p \in PtrsOrNull : ~(p \in reserved_ptrs_ /\ InSomeBucket(p))

\* C14: on the pool, every handle stored in the bucket of size N is recorded in
\* the allocation-size index with size N, and a handle Alloc(N) takes from the
\* bucket is recorded with size N.
C14_ExactSizeMatching ==
  kind = "Pooled" =>
    /\ \A s \in Sizes : \A i \in 1..Len(size_to_alloc_ptrs_[s]) :
         /\ size_to_alloc_ptrs_[s][i] \in DOMAIN alloc_ptr_to_size_
         /\ alloc_ptr_to_size_[size_to_alloc_ptrs_[s][i]] = s
    /\ (last.op = "Alloc" /\ last.pooled > 0) =>
         /\ last.ret \in DOMAIN alloc_ptr_to_size_
         /\ alloc_ptr_to_size_[last.ret] = last.size

\* C15: on the pool, Reserve(S > 0) calls cudaMalloc (whatever the bucket of S
\* holds); a Free of a handle obtained by Reserve calls cudaFree on it exactly
\* once and puts it in no bucket; and after a Free the handle freed is not in
\* the reserved set.
C15_ReservedBypassesPool ==
  kind = "Pooled" =>
    /\ (last.op = "Reserve" /\ last.size > 0) => last.mallocs = 1
    /\ (last.op = "Free" /\ last.was_reserved) =>
         /\ last.frees[last.p] = 1 /\ Total(last.frees) = 1
         /\ ~InSomeBucket(last.p)
    /\ last.op = "Free" => last.p \notin reserved_ptrs_

\* C16: on the pool, after two distinct handles of size S were given back by
\* two Free calls in a row, Alloc(S) returns the one given back last and does
\* not call cudaMalloc.
C16_LifoReuse ==
  (/\ kind = "Pooled" /\ last.op = "Alloc"
   /\ Len(freed) = 2 /\ freed[1] # freed[2]
   /\ alloc_ptr_to_size_[freed[1]] = last.size
   /\ alloc_ptr_to_size_[freed[2]] = last.size)
    => (last.ret = freed[2] /\ last.mallocs = 0)

\* C16 witness: two distinct handles of size S were freed in a row and Alloc(S)
\* returned the second from the bucket.
C16_Witness ==
  /\ kind = "Pooled" /\ last.op = "Alloc" /\ last.size > 0
  /\ Len(freed) = 2 /\ freed[1] # freed[2]
  /\ alloc_ptr_to_size_[freed[1]] = last.size
  /\ alloc_ptr_to_size_[freed[2]] = last.size
  /\ last.ret = freed[2] /\ last.mallocs = 0 /\ last.pooled >= 2

\* C20: on the raw allocator, Alloc(0) and Free(nullptr) call neither
\* cudaSetDevice nor cudaMalloc nor cudaFree, leave the active device as it
\* was, and do not throw (stated here for the calls during which every runtime
\* call they make succeeds).
C20_DegenerateRequestsDoNothing ==
  (/\ kind = "Raw"
   /\ last.env = EnvOk
   /\ \/ last.op = "Alloc" /\ last.size = 0
      \/ last.op = "Free" /\ last.p = nullptr)
    => /\ ~last.threw
       /\ last.set_calls = 0 /\ last.mallocs = 0 /\ Total(last.frees) = 0
       /\ last.dev_after = last.dev_before

\* C17: every Free of the external allocator calls the free_ hook on its
\* handle exactly once, reserved or not, and calls it before it looks the
\* handle up in reserved_ and before any empty_cache_ call: while a Free has
\* yet to enter the block under lock_, the hook was called, nothing was looked
\* up and empty_cache_ was not called.
C17_FreeHookFirstAlways ==
  \A t \in Threads :
    thr[t].op = "Free" =>
      /\ thr[t].frees = 1
      /\ thr[t].pc = "Free_lock" => (~thr[t].looked /\ thr[t].empties = 0)
      /\ thr[t].pc = "idle" => thr[t].looked

\* C17 witness: a Free of a handle that is not reserved has completed, with
\* one hook call and no empty_cache_ call, while another Free, of a handle
\* that is reserved, has called the hook and not yet looked the handle up.
C17_Witness ==
  \E t, u \in Threads :
    /\ ~dblFree
    /\ thr[t].op = "Free" /\ thr[t].pc = "idle" /\ thr[t].p # nullptr
    /\ thr[t].frees = 1 /\ thr[t].looked /\ ~thr[t].found /\ thr[t].empties = 0
    /\ thr[u].op = "Free" /\ thr[u].pc = "Free_lock" /\ thr[u].frees = 1
    /\ thr[u].p \in reserved_

\* C18: on the external allocator, in every interleaving of the calls of
\* several threads, each address was erased from reserved_ at most as often as
\* it was inserted, it is in reserved_ exactly when it was inserted once more
\* than erased, and empty_cache_ was called once per erasure (never, when the
\* hook was not supplied).
C18_EmptyCacheOncePerRemoval ==
  /\ \A p \in Ptrs :
       /\ tally.rem[p] <= tally.ins[p]
       /\ p \in reserved_ <=> tally.ins[p] = tally.rem[p] + 1
       /\ tally.emp[p] = (IF empty_cache_ THEN tally.rem[p] ELSE 0)
  /\ tally.emp[nullptr] = 0

\* C18 witness: two threads freed the same reserved handle in overlapping
\* calls; one found and erased it, the other did not, and empty_cache_ was
\* called once.
C18_Witness ==
  /\ empty_cache_
  /\ thr["t1"].op = "Free" /\ thr["t2"].op = "Free"
  /\ thr["t1"].pc = "idle" /\ thr["t2"].pc = "idle"
  /\ thr["t1"].p = thr["t2"].p /\ thr["t1"].p # nullptr
  /\ thr["t1"].found /\ ~thr["t2"].found
  /\ thr["t1"].empties + thr["t2"].empties = 1
  /\ tally.ins[thr["t1"].p] = 1 /\ tally.rem[thr["t1"].p] = 1 /\ tally.emp[thr["t1"].p] = 1

\* C19: on the external allocator, while every Free was given a handle its
\* caller held (and the alloc hook only returns addresses that are not
\* allocated), no Reserve of any thread fails the duplicate-reservation
\* ORT_ENFORCE.
C19_ReserveNeverFindsDuplicate ==
  ~dblFree => \A t \in Threads : ~(thr[t].op = "Reserve" /\ thr[t].dup)

====
